---- MODULE Spec2Model ----
(***************************************************************************)
(* UE-Bot ESP32 firmware: the WiFi connection manager (WiFiManager), the   *)
(* LED pattern scheduler (LEDIndicator).  Time is in milliseconds, as      *)
(* returned by millis().  A blocking call (WiFiManager::begin) is a        *)
(* sequence of steps, one per iteration of its status-polling loop; pc is  *)
(* the position of the single thread of control.                           *)
(***************************************************************************)
EXTENDS Integers, Sequences, FiniteSets, TLC

VARIABLES
    clock,                  \* wall time in ms since boot
    _state,                 \* WiFiManager::_state
    _lastConnectAttempt,    \* WiFiManager::_lastConnectAttempt
    _reconnectAttempts,     \* WiFiManager::_reconnectAttempts
    ssidSet,                \* WiFiManager::_ssid != nullptr
    callbackSet,            \* WiFiManager::_stateCallback is non-empty
    pc,                     \* "idle", "loop_backoff" (between the two ifs of loop), "begin_wait" (in begin's while)
    startTime,              \* local startTime of the running begin()
    op,                     \* the public operation running or last run
    opPre,                  \* _state when that operation was called
    pollStatus,             \* what WiFi.status() returned to loop()'s link check: "unread", "up", "down"
    ret,                    \* return value of begin() in this operation: "none", "success", "failure"
    cbLog,                  \* arguments the state callback received during this operation, in order
    fired,                  \* arguments the state callback received during the last step
    attemptAt,              \* clock at the start of the latest connect sequence, -1 if none
    attemptNC,              \* whether that connect sequence started while _state was not CONNECTED
    adapterReq,             \* the request this operation made to the adapter: "none", "begin", "disconnect"
    attemptsAtConnected,    \* _reconnectAttempts when the callback was invoked with CONNECTED in this operation, -1 if it was not
    _activeLow,             \* LEDIndicator::_activeLow
    _pattern,               \* LEDIndicator::_pattern
    _ledState,              \* LEDIndicator::_ledState
    _lastUpdate,            \* LEDIndicator::_lastUpdate
    _blinkPhase,            \* LEDIndicator::_blinkPhase
    pinOutput,              \* pinMode(_pin, OUTPUT) has been called
    pinLevel,               \* level last written by digitalWrite: "unset", "LOW", "HIGH"
    setAt,                  \* clock at the latest setPattern call, -1 if none
    linkStable,             \* the adapter reports connected at every status read from now on
    ledWired                \* the registered callback is onWiFiStateChange of main.cpp

wifiVars == <<_state, _lastConnectAttempt, _reconnectAttempts, ssidSet, callbackSet, pc,
              startTime, op, opPre, pollStatus, ret, cbLog, fired, attemptAt, attemptNC,
              adapterReq, attemptsAtConnected>>
ledVars == <<_activeLow, _pattern, _ledState, _lastUpdate, _blinkPhase, pinOutput, pinLevel, setAt>>
envVars == <<linkStable, ledWired>>
vars == <<clock, wifiVars, ledVars, envVars>>

----------------------------------------------------------------------------
\* Program constants

RECONNECT_DELAY_MS == 5000
WIFI_TIMEOUT_MS == 30000
STATUS_POLL_MS == 500
LED_BUILTIN_ACTIVE_LOW == FALSE
LOOP_DELAY_MS == 10
SETUP_DELAY_MS == 1000
BLINK_SLOW_MS == 1000
BLINK_FAST_MS == 200
PULSE_MS == 50
DOUBLE_BLINK_SHORT_MS == 100
DOUBLE_BLINK_LONG_MS == 500
DOUBLE_BLINK_SHORT_PHASES == 4
DOUBLE_BLINK_PHASES == 6

WiFiState == {"DISCONNECTED", "CONNECTING", "CONNECTED", "ERROR"}
LEDPattern == {"OFF", "ON", "BLINK_SLOW", "BLINK_FAST", "PULSE", "DOUBLE_BLINK"}

\* Bounds of the model
MaxTime == 61000
LedMaxTime == 1700
BlinkMaxTime == 3500
LedDelays == {50, 200}
WifiDelays == {5000}
\* the times after WiFi.begin() at which a status read may first find the adapter connected
ConnectDelays == {0, 3000, 30500}
\* a status read in loop() may find the link down at the multiples of this time
LinkDropEvery == 2500

----------------------------------------------------------------------------
\* Clock

\* millis(): an unsigned long that wraps at 2^32; every clock value of the model is
\* below 2^31 (MaxTime), where millis() is the time since boot
millis == clock

\* (now - then > limit) in unsigned long arithmetic, for now, then, limit below 2^31:
\* when now < then the difference wraps to 2^32 - (then - now), which is above 2^31
ElapsedExceeds(now, then, limit) ==
    IF now >= then THEN now - then > limit ELSE TRUE

----------------------------------------------------------------------------
\* The state callback of main.cpp

\* the timestamp setPattern() leaves in _lastUpdate
PatternStartNow == millis

PatternStart == 0

\* the pattern onWiFiStateChange selects
PatternForErrorAsOff(state) ==
    CASE state = "CONNECTING" -> "BLINK_FAST"
      [] state = "CONNECTED" -> "ON"
      [] state = "DISCONNECTED" -> "BLINK_SLOW"
      [] state = "ERROR" -> "OFF"

PatternFor(state) ==
    CASE state = "CONNECTING" -> "BLINK_FAST"
      [] state = "CONNECTED" -> "ON"
      [] state = "DISCONNECTED" -> "BLINK_SLOW"
      [] state = "ERROR" -> "DOUBLE_BLINK"

\* onWiFiStateChange(state): led.setPattern(...)
onWiFiStateChange(state) ==
    /\ _pattern' = PatternFor(state)
    /\ _lastUpdate' = PatternStart
    /\ _blinkPhase' = 0
    /\ setAt' = clock
    /\ UNCHANGED <<_activeLow, _ledState, pinOutput, pinLevel>>

\* what the callback invoked in this step, if any, does to the indicator
stateCallback ==
    IF ledWired /\ fired' # <<>>
      THEN onWiFiStateChange(fired'[1])
      ELSE UNCHANGED ledVars

----------------------------------------------------------------------------
\* WiFiManager

\* updateState(newState), the callback log of the operation so far being log
updateStateAlways(newState, log) ==
    /\ _state' = newState
    /\ IF callbackSet
         THEN cbLog' = Append(log, newState) /\ fired' = <<newState>>
         ELSE cbLog' = log /\ fired' = <<>>

updateState(newState, log) ==
    IF _state # newState
      THEN /\ _state' = newState
           /\ IF callbackSet
                THEN cbLog' = Append(log, newState) /\ fired' = <<newState>>
                ELSE cbLog' = log /\ fired' = <<>>
      ELSE /\ _state' = _state
           /\ cbLog' = log
           /\ fired' = <<>>

\* begin(ssid, password), up to the first evaluation of the while condition; ssidGiven
\* tells whether ssid is a string rather than nullptr
beginEnter(log, ssidGiven) ==
    /\ ssidSet' = ssidGiven
    /\ updateState("CONNECTING", log)
    /\ startTime' = millis
    /\ attemptAt' = clock
    /\ attemptNC' = (_state # "CONNECTED")
    /\ adapterReq' = "begin"
    /\ ret' = "none"
    /\ pc' = "begin_wait"

\* begin(ssid, password) called by the application
Initialize(ssidGiven) ==
    /\ pc = "idle"
    /\ op' = "initialize"
    /\ opPre' = _state
    /\ pollStatus' = "unread"
    /\ beginEnter(<<>>, ssidGiven)
    /\ attemptsAtConnected' = -1
    /\ UNCHANGED <<clock, _lastConnectAttempt, _reconnectAttempts, callbackSet, envVars>>
    /\ stateCallback

\* begin() on success: _reconnectAttempts = 0
reconnectAttemptsNotReset == _reconnectAttempts

reconnectAttemptsReset == 0

\* a begin() that clears the counter before it calls updateState(CONNECTED)
attemptsSeenAfterReset == reconnectAttemptsReset

\* the value of _reconnectAttempts while updateState(CONNECTED) runs in begin()
attemptsSeenByCallback == _reconnectAttempts

\* one evaluation of begin's while condition finding the adapter connected
BeginConnected ==
    /\ pc = "begin_wait"
    /\ linkStable \/ clock - startTime \in ConnectDelays
    /\ updateState("CONNECTED", cbLog)
    /\ attemptsAtConnected' = IF fired' # <<>> THEN attemptsSeenByCallback ELSE -1
    /\ _reconnectAttempts' = reconnectAttemptsReset
    /\ ret' = "success"
    /\ startTime' = 0
    /\ pc' = "idle"
    /\ UNCHANGED <<clock, _lastConnectAttempt, ssidSet, callbackSet, op, opPre,
                   pollStatus, attemptAt, attemptNC, adapterReq, envVars>>
    /\ stateCallback

\* a while loop that never gives up
TimedOutNever == FALSE

\* a timeout as short as one status-polling interval
TimedOutEarly == ElapsedExceeds(millis, startTime, STATUS_POLL_MS)

\* millis() - startTime > WIFI_TIMEOUT_MS
TimedOut == ElapsedExceeds(millis, startTime, WIFI_TIMEOUT_MS)

\* a begin() that gives up without reporting the error state
BeginTimeoutSilent ==
    /\ pc = "begin_wait"
    /\ ~linkStable
    /\ TimedOut
    /\ ret' = "failure"
    /\ startTime' = 0
    /\ pc' = "idle"
    /\ fired' = <<>>
    /\ UNCHANGED <<clock, _state, _lastConnectAttempt, _reconnectAttempts, ssidSet,
                   callbackSet, op, opPre, pollStatus, cbLog, attemptAt, attemptNC,
                   adapterReq, attemptsAtConnected, ledVars, envVars>>

\* the adapter is not connected and the timeout has elapsed
BeginTimeout ==
    /\ pc = "begin_wait"
    /\ ~linkStable
    /\ TimedOut
    /\ updateState("ERROR", cbLog)
    /\ ret' = "failure"
    /\ startTime' = 0
    /\ pc' = "idle"
    /\ UNCHANGED <<clock, _lastConnectAttempt, _reconnectAttempts, ssidSet, callbackSet,
                   op, opPre, pollStatus, attemptAt, attemptNC, adapterReq,
                   attemptsAtConnected, envVars>>
    /\ stateCallback

\* the adapter is not connected and the timeout has not elapsed: delay(500)
BeginDelay ==
    /\ pc = "begin_wait"
    /\ ~linkStable
    /\ ~TimedOut
    /\ clock + STATUS_POLL_MS <= MaxTime
    /\ clock' = clock + STATUS_POLL_MS
    /\ fired' = <<>>
    /\ UNCHANGED <<_state, _lastConnectAttempt, _reconnectAttempts, ssidSet, callbackSet, pc,
                   startTime, op, opPre, pollStatus, ret, cbLog, attemptAt, attemptNC,
                   adapterReq, attemptsAtConnected, ledVars, envVars>>

\* handleDisconnect()
handleDisconnect(log) == updateState("DISCONNECTED", log)

\* loop(), its first if: link-loss detection; connected is what WiFi.status() reports
LoopLinkCheck(connected) ==
    /\ pc = "idle"
    /\ linkStable => connected
    /\ op' = "poll"
    /\ opPre' = _state
    /\ ret' = "none"
    /\ IF _state = "CONNECTED"
         THEN /\ pollStatus' = IF connected THEN "up" ELSE "down"
              /\ IF ~connected
                   THEN handleDisconnect(<<>>)
                   ELSE _state' = _state /\ cbLog' = <<>> /\ fired' = <<>>
         ELSE /\ pollStatus' = "unread"
              /\ _state' = _state /\ cbLog' = <<>> /\ fired' = <<>>
    /\ pc' = "loop_backoff"
    /\ adapterReq' = "none"
    /\ attemptsAtConnected' = -1
    /\ UNCHANGED <<clock, _lastConnectAttempt, _reconnectAttempts, ssidSet, callbackSet,
                   startTime, attemptAt, attemptNC, envVars>>
    /\ stateCallback

\* _reconnectAttempts++ in reconnect()
reconnectAttemptsKept == _reconnectAttempts

reconnectAttemptsIncremented == _reconnectAttempts + 1

BackoffElapsedAlways(now) == TRUE

BackoffElapsedNever(now) == FALSE

BackoffElapsed(now) == ElapsedExceeds(now, _lastConnectAttempt, RECONNECT_DELAY_MS)

\* reconnect(), up to the first evaluation of begin's while condition
reconnect(log) ==
    IF ssidSet
      THEN /\ _reconnectAttempts' = reconnectAttemptsIncremented
           /\ beginEnter(log, ssidSet)
      ELSE /\ pc' = "idle"
           /\ ret' = "none"
           /\ cbLog' = log
           /\ fired' = <<>>
           /\ adapterReq' = "none"
           /\ UNCHANGED <<_state, _reconnectAttempts, ssidSet, startTime, attemptAt, attemptNC>>

\* loop(), its second if
LoopBackoff ==
    /\ pc = "loop_backoff"
    /\ IF _state \in {"DISCONNECTED", "ERROR"} /\ BackoffElapsed(millis)
         THEN /\ _lastConnectAttempt' = millis
              /\ reconnect(cbLog)
         ELSE /\ pc' = "idle"
              /\ fired' = <<>>
              /\ UNCHANGED <<_state, _lastConnectAttempt, _reconnectAttempts, ssidSet,
                             startTime, ret, cbLog, attemptAt, attemptNC, adapterReq>>
    /\ UNCHANGED <<clock, callbackSet, op, opPre, pollStatus, attemptsAtConnected, envVars>>
    /\ stateCallback

\* reconnect() called by the application
Reconnect ==
    /\ pc = "idle"
    /\ op' = "reconnect"
    /\ opPre' = _state
    /\ pollStatus' = "unread"
    /\ reconnect(<<>>)
    /\ attemptsAtConnected' = -1
    /\ UNCHANGED <<clock, _lastConnectAttempt, callbackSet, envVars>>
    /\ stateCallback

\* a disconnect() that also clears the attempt counter
DisconnectResetting ==
    /\ pc = "idle"
    /\ op' = "disconnect"
    /\ opPre' = _state
    /\ pollStatus' = "unread"
    /\ ret' = "none"
    /\ adapterReq' = "disconnect"
    /\ updateState("DISCONNECTED", <<>>)
    /\ attemptsAtConnected' = -1
    /\ _reconnectAttempts' = 0
    /\ UNCHANGED <<clock, _lastConnectAttempt, ssidSet, callbackSet, pc,
                   startTime, attemptAt, attemptNC, envVars>>
    /\ stateCallback

\* disconnect()
Disconnect ==
    /\ pc = "idle"
    /\ op' = "disconnect"
    /\ opPre' = _state
    /\ pollStatus' = "unread"
    /\ ret' = "none"
    /\ adapterReq' = "disconnect"
    /\ updateState("DISCONNECTED", <<>>)
    /\ attemptsAtConnected' = -1
    /\ UNCHANGED <<clock, _lastConnectAttempt, _reconnectAttempts, ssidSet, callbackSet, pc,
                   startTime, attemptAt, attemptNC, envVars>>
    /\ stateCallback

\* setStateCallback(callback); callback tells whether the std::function holds a target
SetStateCallback(callback) ==
    /\ pc = "idle"
    /\ callbackSet' = callback
    /\ ledWired' = FALSE
    /\ op' = "setStateCallback"
    /\ opPre' = _state
    /\ pollStatus' = "unread"
    /\ ret' = "none"
    /\ cbLog' = <<>>
    /\ fired' = <<>>
    /\ adapterReq' = "none"
    /\ attemptsAtConnected' = -1
    /\ UNCHANGED <<clock, _state, _lastConnectAttempt, _reconnectAttempts, ssidSet, pc,
                   startTime, attemptAt, attemptNC, ledVars, linkStable>>

\* time passing between two calls of the application; the record of the operation
\* that returned last (op, opPre, pollStatus, ret, cbLog) is dropped
Tick(d) ==
    /\ pc = "idle"
    /\ clock + d <= MaxTime
    /\ clock' = clock + d
    /\ op' = "none"
    /\ opPre' = _state
    /\ pollStatus' = "unread"
    /\ ret' = "none"
    /\ cbLog' = <<>>
    /\ fired' = <<>>
    /\ adapterReq' = "none"
    /\ attemptsAtConnected' = -1
    /\ UNCHANGED <<_state, _lastConnectAttempt, _reconnectAttempts, ssidSet, callbackSet, pc,
                   startTime, attemptAt, attemptNC, ledVars, envVars>>

----------------------------------------------------------------------------
\* LEDIndicator

\* the level digitalWrite receives for a logical state
PinLevelIgnoringPolarity(state) == IF state THEN "HIGH" ELSE "LOW"

PinLevel(state) ==
    IF (IF _activeLow THEN ~state ELSE state) THEN "HIGH" ELSE "LOW"

\* applyState(state)
applyState(state) ==
    /\ _ledState' = state
    /\ pinLevel' = PinLevel(state)

\* toggle()
toggle == applyState(~_ledState)

\* begin()
LedBegin ==
    /\ pinOutput' = TRUE
    /\ applyState(FALSE)
    /\ UNCHANGED <<clock, wifiVars, envVars, _activeLow, _pattern, _lastUpdate, _blinkPhase, setAt>>

\* thresholds with BLINK_FAST as fast as PULSE
PatternIntervalFastAsPulse ==
    CASE _pattern = "BLINK_SLOW" -> BLINK_SLOW_MS
      [] _pattern = "BLINK_FAST" -> PULSE_MS
      [] _pattern = "PULSE" -> PULSE_MS
      [] _pattern = "DOUBLE_BLINK" ->
            IF _blinkPhase < DOUBLE_BLINK_SHORT_PHASES
              THEN DOUBLE_BLINK_SHORT_MS ELSE DOUBLE_BLINK_LONG_MS

\* thresholds with DOUBLE_BLINK short for two phases only
PatternIntervalTwoShort ==
    CASE _pattern = "BLINK_SLOW" -> BLINK_SLOW_MS
      [] _pattern = "BLINK_FAST" -> BLINK_FAST_MS
      [] _pattern = "PULSE" -> PULSE_MS
      [] _pattern = "DOUBLE_BLINK" ->
            IF _blinkPhase % 3 < 2 THEN DOUBLE_BLINK_SHORT_MS ELSE DOUBLE_BLINK_LONG_MS

\* the threshold loop() compares the elapsed time with, for the blinking patterns
PatternInterval ==
    CASE _pattern = "BLINK_SLOW" -> BLINK_SLOW_MS
      [] _pattern = "BLINK_FAST" -> BLINK_FAST_MS
      [] _pattern = "PULSE" -> PULSE_MS
      [] _pattern = "DOUBLE_BLINK" ->
            IF _blinkPhase < DOUBLE_BLINK_SHORT_PHASES
              THEN DOUBLE_BLINK_SHORT_MS ELSE DOUBLE_BLINK_LONG_MS

\* loop() at time now
ledLoop(now) ==
    /\ CASE _pattern = "OFF" ->
              /\ applyState(FALSE)
              /\ UNCHANGED <<_lastUpdate, _blinkPhase>>
         [] _pattern = "ON" ->
              /\ applyState(TRUE)
              /\ UNCHANGED <<_lastUpdate, _blinkPhase>>
         [] OTHER ->
              IF ElapsedExceeds(now, _lastUpdate, PatternInterval)
                THEN /\ _lastUpdate' = now
                     /\ toggle
                     /\ _blinkPhase' = IF _pattern = "DOUBLE_BLINK"
                                         THEN (_blinkPhase + 1) % DOUBLE_BLINK_PHASES
                                         ELSE _blinkPhase
                ELSE UNCHANGED <<_ledState, pinLevel, _lastUpdate, _blinkPhase>>
    /\ UNCHANGED <<_activeLow, _pattern, pinOutput, setAt>>

LedLoop ==
    /\ ledLoop(millis)
    /\ UNCHANGED <<clock, wifiVars, envVars>>

\* setPattern(pattern)
SetPattern(pattern) ==
    /\ _pattern' = pattern
    /\ _lastUpdate' = PatternStart
    /\ _blinkPhase' = 0
    /\ setAt' = clock
    /\ UNCHANGED <<clock, wifiVars, envVars, _activeLow, _ledState, pinOutput, pinLevel>>

\* on()
LedOn ==
    /\ _pattern' = "ON"
    /\ applyState(TRUE)
    /\ UNCHANGED <<clock, wifiVars, envVars, _activeLow, _lastUpdate, _blinkPhase, pinOutput, setAt>>

\* off()
LedOff ==
    /\ _pattern' = "OFF"
    /\ applyState(FALSE)
    /\ UNCHANGED <<clock, wifiVars, envVars, _activeLow, _lastUpdate, _blinkPhase, pinOutput, setAt>>

\* toggle() called by the application
LedToggle ==
    /\ toggle
    /\ UNCHANGED <<clock, wifiVars, envVars, _activeLow, _pattern, _lastUpdate, _blinkPhase,
                   pinOutput, setAt>>

\* time passing between two calls on the indicator
LedTick(d) ==
    /\ clock + d <= LedMaxTime
    /\ clock' = clock + d
    /\ UNCHANGED <<wifiVars, ledVars, envVars>>

\* LEDIndicator::loop() called by a caller that then waits LOOP_DELAY_MS, as the
\* loop() of main.cpp does with led.loop(); delay(10)
LedLoopIteration ==
    /\ clock + LOOP_DELAY_MS <= BlinkMaxTime
    /\ ledLoop(millis)
    /\ clock' = clock + LOOP_DELAY_MS
    /\ UNCHANGED <<wifiVars, envVars>>

----------------------------------------------------------------------------
\* Initial state: the global instances of main.cpp

InitWifi ==
    /\ clock = 0
    /\ _state = "DISCONNECTED"
    /\ _lastConnectAttempt = 0
    /\ _reconnectAttempts = 0
    /\ ssidSet = FALSE
    /\ callbackSet = FALSE
    /\ pc = "idle"
    /\ startTime = 0
    /\ op = "none"
    /\ opPre = "DISCONNECTED"
    /\ pollStatus = "unread"
    /\ ret = "none"
    /\ cbLog = <<>>
    /\ fired = <<>>
    /\ attemptAt = -1
    /\ attemptNC = FALSE
    /\ adapterReq = "none"
    /\ attemptsAtConnected = -1
    /\ ledWired = FALSE

InitLedFields ==
    /\ _pattern = "OFF"
    /\ _ledState = FALSE
    /\ _lastUpdate = 0
    /\ _blinkPhase = 0
    /\ pinOutput = FALSE
    /\ pinLevel = "unset"
    /\ setAt = -1

Init ==
    /\ InitWifi
    /\ InitLedFields
    /\ _activeLow = LED_BUILTIN_ACTIVE_LOW
    /\ linkStable = FALSE

\* The manager under every sequence of calls of its public operations
Next ==
    \/ \E ssidGiven \in BOOLEAN : Initialize(ssidGiven)
    \/ BeginConnected
    \/ BeginTimeout
    \/ BeginDelay
    \/ \E connected \in BOOLEAN : LoopLinkCheck(connected)
    \/ LoopBackoff
    \/ Disconnect
    \/ Reconnect
    \/ \E callback \in BOOLEAN : SetStateCallback(callback)
    \/ \E d \in WifiDelays : Tick(d)

Spec == Init /\ [][Next]_vars

\* The manager driven by begin() and loop() alone
NextPolls ==
    \/ \E ssidGiven \in BOOLEAN : Initialize(ssidGiven)
    \/ BeginConnected
    \/ BeginTimeout
    \/ BeginDelay
    \/ \E connected \in BOOLEAN : LoopLinkCheck(connected)
    \/ LoopBackoff
    \/ \E callback \in BOOLEAN : SetStateCallback(callback)
    \/ \E d \in WifiDelays : Tick(d)

SpecPolls == Init /\ [][NextPolls]_vars

\* An indicator of either polarity under every sequence of calls of its operations
InitLed ==
    /\ InitWifi
    /\ InitLedFields
    /\ _activeLow \in BOOLEAN
    /\ linkStable = FALSE

NextLed ==
    \/ LedBegin
    \/ LedLoop
    \/ \E pattern \in LEDPattern : SetPattern(pattern)
    \/ LedOn
    \/ LedOff
    \/ LedToggle
    \/ \E d \in LedDelays : LedTick(d)

SpecLed == InitLed /\ [][NextLed]_vars

\* LEDIndicator on its own, without a WiFiManager: set to DOUBLE_BLINK once, at any
\* time, and polled every 10 ms
SetDoubleBlink ==
    /\ pinOutput
    /\ _pattern # "DOUBLE_BLINK"
    /\ SetPattern("DOUBLE_BLINK")

NextBlink ==
    \/ LedBegin
    \/ SetDoubleBlink
    \/ LedLoopIteration

SpecBlink == Init /\ [][NextBlink]_vars

\* WiFiManager under a caller that calls begin() once with an ssid and then keeps
\* calling loop() and letting time pass, as the program of main.cpp does; from some
\* moment on the adapter reports connected at every status read
Setup ==
    /\ ~ssidSet
    /\ Initialize(TRUE)

LinkStabilises ==
    /\ ~linkStable
    /\ linkStable' = TRUE
    /\ UNCHANGED <<clock, wifiVars, ledVars, ledWired>>

BeginStep == BeginConnected \/ BeginTimeout \/ BeginDelay

LoopCalled == \E connected \in BOOLEAN : LoopLinkCheck(connected)

TimePasses == \E d \in WifiDelays : Tick(d)

NextLive ==
    \/ Setup
    \/ BeginConnected
    \/ BeginTimeout
    \/ BeginDelay
    \/ \E connected \in BOOLEAN : LoopLinkCheck(connected)
    \/ LoopBackoff
    \/ \E d \in WifiDelays : Tick(d)
    \/ LinkStabilises

SpecLive ==
    /\ Init
    /\ [][NextLive]_vars
    /\ WF_vars(BeginStep)
    /\ WF_vars(LoopBackoff)
    /\ SF_vars(LoopCalled)
    /\ SF_vars(TimePasses)

----------------------------------------------------------------------------
\* The program of main.cpp: setup() once, then loop() again and again

\* setup(): Serial.begin(115200); delay(1000)
SetupDelay ==
    /\ clock = 0
    /\ ~pinOutput
    /\ Tick(SETUP_DELAY_MS)

\* setup(): led.begin()
SetupLedBegin ==
    /\ clock > 0
    /\ ~pinOutput
    /\ LedBegin

\* setup(): led.setPattern(BLINK_SLOW)
SetupPattern ==
    /\ pinOutput
    /\ setAt = -1
    /\ SetPattern("BLINK_SLOW")

\* setup(): wifiManager.setStateCallback(onWiFiStateChange)
SetupCallback ==
    /\ pc = "idle"
    /\ setAt # -1
    /\ ~callbackSet
    /\ callbackSet' = TRUE
    /\ ledWired' = TRUE
    /\ op' = "setStateCallback"
    /\ opPre' = _state
    /\ pollStatus' = "unread"
    /\ ret' = "none"
    /\ cbLog' = <<>>
    /\ fired' = <<>>
    /\ adapterReq' = "none"
    /\ attemptsAtConnected' = -1
    /\ UNCHANGED <<clock, _state, _lastConnectAttempt, _reconnectAttempts, ssidSet, pc,
                   startTime, attemptAt, attemptNC, ledVars, linkStable>>

\* setup(): wifiManager.begin(WIFI_SSID, WIFI_PASSWORD)
SetupBegin ==
    /\ ledWired
    /\ ~ssidSet
    /\ Initialize(TRUE)

\* loop(): wifiManager.loop(), after setup() or after the delay of the iteration before;
\* a status read finds the link down only at the times the model allows
MainWifiLoop ==
    /\ ssidSet
    /\ op \in {"initialize", "none"}
    /\ \E connected \in BOOLEAN :
          /\ ~connected => clock % LinkDropEvery = 0
          /\ LoopLinkCheck(connected)

\* loop(): led.loop(); delay(10), after wifiManager.loop() has returned
MainLedIteration ==
    /\ pc = "idle"
    /\ op = "poll"
    /\ clock + LOOP_DELAY_MS <= MaxTime
    /\ ledLoop(millis)
    /\ clock' = clock + LOOP_DELAY_MS
    /\ op' = "none"
    /\ opPre' = _state
    /\ pollStatus' = "unread"
    /\ ret' = "none"
    /\ cbLog' = <<>>
    /\ fired' = <<>>
    /\ adapterReq' = "none"
    /\ attemptsAtConnected' = -1
    /\ UNCHANGED <<_state, _lastConnectAttempt, _reconnectAttempts, ssidSet, callbackSet, pc,
                   startTime, attemptAt, attemptNC, envVars>>

NextMain ==
    \/ SetupDelay
    \/ SetupLedBegin
    \/ SetupPattern
    \/ SetupCallback
    \/ SetupBegin
    \/ BeginConnected
    \/ BeginTimeout
    \/ BeginDelay
    \/ MainWifiLoop
    \/ LoopBackoff
    \/ MainLedIteration

SpecMain == Init /\ [][NextMain]_vars

----------------------------------------------------------------------------
\* Properties of WiFiManager

Returned(operation) == pc = "idle" /\ op = operation

Count(seq, x) == Cardinality({i \in 1..Len(seq) : seq[i] = x})

\* C1: _state is always one of the four states, and in every step a registered state
\* callback is invoked exactly once, with the new state, when _state changes to a
\* different value, and not at all when _state stays the same.
C1_HandlerOncePerChange ==
    /\ [](_state \in WiFiState)
    /\ [][callbackSet =>
            fired' = IF _state' # _state THEN <<_state'>> ELSE <<>>]_vars

\* a poll that lost the link, reconnected at once, and reported each of the three changes
C1_Witness ==
    /\ callbackSet
    /\ Returned("poll")
    /\ opPre = "CONNECTED"
    /\ _state = "CONNECTED"
    /\ cbLog = <<"DISCONNECTED", "CONNECTING", "CONNECTED">>

\* C2: a connect sequence started by loop() while the manager is not connected begins
\* at least RECONNECT_DELAY_MS after the start of the previous connect sequence that
\* was started while the manager was not connected, the one of begin() included.
C2_BackoffBetweenAttempts ==
    [][(/\ pc = "loop_backoff"
        /\ pc' = "begin_wait"
        /\ attemptAt # -1
        /\ attemptNC)
       => clock' - attemptAt >= RECONNECT_DELAY_MS]_vars

\* C3 as stated: a poll that finds the link lost returns in DISCONNECTED, the callback
\* having been invoked once.
C3_LinkLossEndsDisconnected ==
    (Returned("poll") /\ opPre = "CONNECTED" /\ pollStatus = "down" /\ callbackSet)
        => (_state = "DISCONNECTED" /\ cbLog = <<"DISCONNECTED">>)

\* C3 amended: a poll that finds the link lost first invokes the callback with
\* DISCONNECTED; and when no more than RECONNECT_DELAY_MS has passed since
\* _lastConnectAttempt it returns in DISCONNECTED with that single invocation.
C3_LinkLossWithinBackoff ==
    [][(pc = "loop_backoff" /\ opPre = "CONNECTED" /\ pollStatus = "down" /\ callbackSet)
       => /\ _state = "DISCONNECTED"
          /\ cbLog = <<"DISCONNECTED">>
          /\ (clock - _lastConnectAttempt <= RECONNECT_DELAY_MS)
                => (pc' = "idle" /\ _state' = "DISCONNECTED" /\ cbLog' = <<"DISCONNECTED">>)]_vars

C3_Witness ==
    /\ Returned("poll")
    /\ opPre = "CONNECTED"
    /\ pollStatus = "down"
    /\ callbackSet
    /\ _state = "DISCONNECTED"
    /\ cbLog = <<"DISCONNECTED">>
    /\ clock - _lastConnectAttempt = RECONNECT_DELAY_MS

\* C4: begin() called in DISCONNECTED or ERROR that returns without the adapter having
\* reported connected returns failure in state ERROR, the callback having been invoked
\* exactly twice: with CONNECTING, then with ERROR.
C4_TimeoutEndsInError ==
    (Returned("initialize") /\ ret # "success" /\ opPre \in {"DISCONNECTED", "ERROR"}
        /\ callbackSet)
        => (ret = "failure" /\ _state = "ERROR" /\ cbLog = <<"CONNECTING", "ERROR">>)

\* a begin() called in ERROR that timed out again
C4_Witness ==
    /\ Returned("initialize")
    /\ ret = "failure"
    /\ opPre = "ERROR"
    /\ callbackSet
    /\ cbLog = <<"CONNECTING", "ERROR">>

\* C5: begin() during which the adapter reported connected returns success in state
\* CONNECTED with _reconnectAttempts = 0, the callback having been invoked with
\* CONNECTED exactly once.
C5_ConnectSucceeds ==
    (Returned("initialize") /\ ret = "success")
        => /\ _state = "CONNECTED"
           /\ _reconnectAttempts = 0
           /\ callbackSet => (Count(cbLog, "CONNECTED") = 1 /\ cbLog[Len(cbLog)] = "CONNECTED")

\* the adapter connected 3000 ms into the 30000 ms timeout
C5_Witness ==
    /\ Returned("initialize")
    /\ ret = "success"
    /\ callbackSet
    /\ clock - attemptAt = 3000
    /\ cbLog = <<"CONNECTING", "CONNECTED">>

\* C6: a reconnect attempt started by loop() increases _reconnectAttempts by exactly 1;
\* the counter decreases only in a step that ends a connect sequence with success;
\* and it is 0 when a poll that reconnected successfully returns.
C6_AttemptCounter ==
    [][/\ (pc = "loop_backoff" /\ pc' = "begin_wait")
            => _reconnectAttempts' = _reconnectAttempts + 1
       /\ (_reconnectAttempts' < _reconnectAttempts)
            => (pc = "begin_wait" /\ ret' = "success")
       /\ (pc' = "idle" /\ op' = "poll" /\ ret' = "success")
            => _reconnectAttempts' = 0]_vars

\* the second reconnect attempt in a row, the first having failed
C6_Witness ==
    /\ pc = "begin_wait"
    /\ op = "poll"
    /\ opPre = "ERROR"
    /\ _reconnectAttempts = 2

----------------------------------------------------------------------------
\* Properties of LEDIndicator

\* a step in which loop() toggled the output
PollToggled == _lastUpdate' # _lastUpdate /\ _pattern' = _pattern

\* C7: after setPattern(BLINK_FAST) at time T, no loop() before T + 200 ms toggles
\* the output.
C7_NoToggleBefore200 ==
    [][(_pattern = "BLINK_FAST" /\ PollToggled) => clock - setAt >= BLINK_FAST_MS]_vars

\* C8 as stated: under DOUBLE_BLINK polled every tick a cycle is three toggles, the
\* second 100 ms after the first and the third 500 ms after the second.
C8_TwoShortOneLong ==
    [][(_pattern = "DOUBLE_BLINK" /\ PollToggled /\ _lastUpdate # 0)
       => /\ (_blinkPhase % 3 = 1) =>
                (clock - _lastUpdate) \in
                    DOUBLE_BLINK_SHORT_MS .. DOUBLE_BLINK_SHORT_MS + LOOP_DELAY_MS
          /\ (_blinkPhase % 3 = 2) => clock - _lastUpdate >= DOUBLE_BLINK_LONG_MS]_vars

\* C8 amended: under DOUBLE_BLINK polled every 10 ms a cycle is six toggles; each of
\* the toggles of phases 0..3 comes at the first poll more than 100 ms after the toggle
\* before it, each of those of phases 4..5 at the first poll more than 500 ms after
\* it, and _blinkPhase advances by one modulo 6 with every toggle.
C8_FourShortTwoLong ==
    [][(_pattern = "DOUBLE_BLINK" /\ PollToggled)
       => /\ _blinkPhase \in 0..5
          /\ _blinkPhase' = IF _blinkPhase = 5 THEN 0 ELSE _blinkPhase + 1
          /\ (_lastUpdate # 0 /\ _blinkPhase \in 0..3) =>
                (clock - _lastUpdate) \in
                    DOUBLE_BLINK_SHORT_MS + 1 .. DOUBLE_BLINK_SHORT_MS + LOOP_DELAY_MS
          /\ (_lastUpdate # 0 /\ _blinkPhase \in 4..5) =>
                (clock - _lastUpdate) \in
                    DOUBLE_BLINK_LONG_MS + 1 .. DOUBLE_BLINK_LONG_MS + LOOP_DELAY_MS]_vars

\* the first toggle of the second cycle has happened
C8_Witness ==
    /\ _pattern = "DOUBLE_BLINK"
    /\ _blinkPhase = 1
    /\ _lastUpdate - setAt >= 4 * DOUBLE_BLINK_SHORT_MS + 2 * DOUBLE_BLINK_LONG_MS

\* C9: once begin() has run, the level on the pin is the inverse of _ledState when
\* _activeLow is set and equal to it otherwise.
C9_Polarity ==
    pinOutput =>
        pinLevel = IF _activeLow
                     THEN (IF _ledState THEN "LOW" ELSE "HIGH")
                     ELSE (IF _ledState THEN "HIGH" ELSE "LOW")

\* an active-low indicator switched on by a toggle of loop()
C9_Witness ==
    /\ pinOutput
    /\ _activeLow
    /\ _pattern = "BLINK_FAST"
    /\ _lastUpdate # 0
    /\ _ledState
    /\ pinLevel = "LOW"

----------------------------------------------------------------------------
\* Progress of WiFiManager

\* the model's clock leaves room for a full backoff interval
TimeLeft == clock + 2 * RECONNECT_DELAY_MS <= MaxTime

\* C10: with credentials set, loop() called again and again and time passing, every
\* state DISCONNECTED or ERROR is followed by the start of a new connect sequence; and
\* once the adapter reports connected at every status read, the state becomes CONNECTED.
C10_RetriesForever ==
    /\ (ssidSet /\ pc = "idle" /\ _state \in {"DISCONNECTED", "ERROR"} /\ TimeLeft)
            ~> (pc = "begin_wait")
    /\ (ssidSet /\ linkStable /\ TimeLeft) ~> (_state = "CONNECTED")

\* a poll that found the manager in ERROR and reconnected once the adapter was up
C10_Witness ==
    /\ linkStable
    /\ Returned("poll")
    /\ opPre = "ERROR"
    /\ ret = "success"
    /\ _state = "CONNECTED"

----------------------------------------------------------------------------
\* disconnect()

\* C11: every call of disconnect(), whatever the state it is called in, asks the adapter
\* to disconnect and returns in DISCONNECTED; the callback is invoked, once and with
\* DISCONNECTED, exactly when the state before the call was another one; and neither
\* _lastConnectAttempt nor _reconnectAttempts is changed.
C11_DisconnectEffect ==
    [][op' = "disconnect" =>
          /\ pc = "idle" /\ pc' = "idle"
          /\ adapterReq' = "disconnect"
          /\ _state' = "DISCONNECTED"
          /\ fired' = IF callbackSet /\ _state # "DISCONNECTED"
                         THEN <<"DISCONNECTED">> ELSE <<>>
          /\ cbLog' = fired'
          /\ _lastConnectAttempt' = _lastConnectAttempt
          /\ _reconnectAttempts' = _reconnectAttempts]_vars

\* disconnect() returned after it was called in ERROR with attempts counted and a
\* connect attempt stamped
C11_Witness ==
    /\ Returned("disconnect")
    /\ opPre = "ERROR"
    /\ adapterReq = "disconnect"
    /\ cbLog = <<"DISCONNECTED">>
    /\ _reconnectAttempts > 0
    /\ _lastConnectAttempt > 0

----------------------------------------------------------------------------
\* Properties of the program of main.cpp

\* C12: in the program of main.cpp, once setup() has set the startup pattern and
\* registered onWiFiStateChange, the indicator's pattern is the one that belongs to the
\* manager's state (DISCONNECTED: BLINK_SLOW, CONNECTING: BLINK_FAST, CONNECTED: ON,
\* ERROR: DOUBLE_BLINK) in every state, the states in which led.loop() runs included.
C12_PatternFollowsState ==
    (ledWired /\ setAt # -1) =>
        /\ _state = "DISCONNECTED" => _pattern = "BLINK_SLOW"
        /\ _state = "CONNECTING" => _pattern = "BLINK_FAST"
        /\ _state = "CONNECTED" => _pattern = "ON"
        /\ _state = "ERROR" => _pattern = "DOUBLE_BLINK"

\* led.loop() is about to run after a wifiManager.loop() whose reconnect attempt timed out
C12_Witness ==
    /\ ledWired
    /\ Returned("poll")
    /\ cbLog = <<"DISCONNECTED", "CONNECTING", "ERROR">>
    /\ _state = "ERROR"
    /\ _pattern = "DOUBLE_BLINK"

----------------------------------------------------------------------------
\* The blocking connect sequence of begin()

\* C13: a connect sequence, whether started by begin() or by a reconnect inside loop(),
\* never runs longer than WIFI_TIMEOUT_MS plus one delay(500) after its start, whatever
\* the adapter reports: while it runs it can always take a step (as long as the model's
\* clock can advance), and every step of it either returns or lets 500 ms pass; when
\* it ends the operation returns, so one loop() starts at most one connect sequence.
C13_ConnectTerminates ==
    /\ [](pc = "begin_wait" =>
             /\ clock - attemptAt <= WIFI_TIMEOUT_MS + STATUS_POLL_MS
             /\ (ENABLED BeginStep) \/ clock + STATUS_POLL_MS > MaxTime)
    /\ [](op = "poll" => Count(cbLog, "CONNECTING") <= 1)
    /\ [][pc = "begin_wait" =>
             \/ pc' = "idle" /\ clock' = clock /\ ret' \in {"success", "failure"}
             \/ /\ pc' = "begin_wait"
                /\ clock' = clock + STATUS_POLL_MS
                /\ attemptAt' = attemptAt
                /\ clock - attemptAt <= WIFI_TIMEOUT_MS]_vars

\* a reconnect attempt inside loop() returned at the latest possible moment
C13_Witness ==
    /\ Returned("poll")
    /\ ret = "failure"
    /\ callbackSet
    /\ Count(cbLog, "CONNECTING") = 1
    /\ clock - attemptAt = WIFI_TIMEOUT_MS + STATUS_POLL_MS

\* C14 as stated: a connect sequence returns failure, in ERROR, only after the timeout
\* has elapsed, and returns success only for a connection the adapter reported no later
\* than WIFI_TIMEOUT_MS after the start.
C14_SuccessWithinTimeout ==
    /\ (pc = "idle" /\ ret = "failure") =>
            _state = "ERROR" /\ clock - attemptAt > WIFI_TIMEOUT_MS
    /\ (pc = "idle" /\ ret = "success") =>
            _state = "CONNECTED" /\ clock - attemptAt <= WIFI_TIMEOUT_MS

\* C14, amended: a connect sequence returns failure, in ERROR, only after the timeout
\* has elapsed, and returns success only for a connection the adapter reported no later
\* than WIFI_TIMEOUT_MS plus one delay(500) after the start: the status is read before
\* the elapsed time is tested.
C14_SuccessWithinTimeoutPlusPoll ==
    /\ (pc = "idle" /\ ret = "failure") =>
            _state = "ERROR" /\ clock - attemptAt > WIFI_TIMEOUT_MS
    /\ (pc = "idle" /\ ret = "success") =>
            _state = "CONNECTED" /\ clock - attemptAt <= WIFI_TIMEOUT_MS + STATUS_POLL_MS

\* begin() returned success for a connection first seen after the timeout had elapsed
C14_Witness ==
    /\ Returned("initialize")
    /\ ret = "success"
    /\ _state = "CONNECTED"
    /\ clock - attemptAt > WIFI_TIMEOUT_MS

----------------------------------------------------------------------------
\* Properties of LEDIndicator::loop()

\* a step of loop() that toggles the output
LedPollToggle ==
    /\ clock' = clock
    /\ _pattern' = _pattern
    /\ _ledState' # _ledState
    /\ _lastUpdate' = clock
    /\ _lastUpdate' # _lastUpdate

\* loop() called in this state would change the logical level
LoopWouldToggle == ENABLED (LedLoop /\ _ledState' # _ledState)

\* C15: _blinkPhase is always in 0..5; every setPattern() leaves it 0; under DOUBLE_BLINK
\* loop() toggles exactly when more than 100 ms (phases 0..3) or 500 ms (phases 4..5)
\* have passed since _lastUpdate, and _blinkPhase advances by 1 modulo 6 with every such
\* toggle; nothing else changes _blinkPhase.
C15_BlinkPhase ==
    /\ [](_blinkPhase \in 0..5)
    /\ [](_blinkPhase # 0 => _lastUpdate > 0)
    /\ [](_pattern = "DOUBLE_BLINK" =>
             (LoopWouldToggle <=> clock - _lastUpdate > IF _blinkPhase \in 0..3 THEN 100 ELSE 500))
    /\ [][/\ (setAt' # setAt \/ (_lastUpdate' = 0 /\ _lastUpdate # 0)) => _blinkPhase' = 0
          /\ (LedPollToggle /\ _pattern = "DOUBLE_BLINK") => _blinkPhase' = (_blinkPhase + 1) % 6
          /\ _blinkPhase' # _blinkPhase =>
                \/ LedPollToggle /\ _pattern = "DOUBLE_BLINK"
                \/ _blinkPhase' = 0 /\ _lastUpdate' = 0 /\ _ledState' = _ledState]_vars

\* DOUBLE_BLINK has gone through all six phases since it was set
C15_Witness ==
    /\ _pattern = "DOUBLE_BLINK"
    /\ _blinkPhase = 0
    /\ _lastUpdate > setAt
    /\ _lastUpdate - setAt >= 4 * 100 + 2 * 500

\* C16: under BLINK_SLOW, BLINK_FAST and PULSE a loop() toggles the output, and sets
\* _lastUpdate to the current time, when more than 1000, 200, 50 ms have passed since
\* _lastUpdate, and changes nothing otherwise, so that a toggle made by loop() comes more
\* than the threshold after the one before; under OFF and ON every loop() forces the
\* logical level to low and high and leaves _lastUpdate alone.
C16_BlinkTiming ==
    /\ [](_pattern \in {"BLINK_SLOW", "BLINK_FAST", "PULSE"} =>
             IF clock - _lastUpdate > (CASE _pattern = "BLINK_SLOW" -> 1000
                                         [] _pattern = "BLINK_FAST" -> 200
                                         [] _pattern = "PULSE" -> 50)
               THEN /\ ENABLED LedLoop
                    /\ ~ENABLED (LedLoop /\ ~(_ledState' = ~_ledState /\ _lastUpdate' = clock))
               ELSE ~ENABLED (LedLoop /\ (_ledState' # _ledState \/ _lastUpdate' # _lastUpdate)))
    /\ [](_pattern = "OFF" =>
             /\ ENABLED LedLoop
             /\ ~ENABLED (LedLoop /\ ~(_ledState' = FALSE /\ _lastUpdate' = _lastUpdate)))
    /\ [](_pattern = "ON" =>
             /\ ENABLED LedLoop
             /\ ~ENABLED (LedLoop /\ ~(_ledState' = TRUE /\ _lastUpdate' = _lastUpdate)))
    /\ [][(LedPollToggle /\ _lastUpdate > 0) =>
             (CASE _pattern = "BLINK_SLOW" -> _lastUpdate' - _lastUpdate > 1000
                [] _pattern = "BLINK_FAST" -> _lastUpdate' - _lastUpdate > 200
                [] _pattern = "PULSE" -> _lastUpdate' - _lastUpdate > 50
                [] OTHER -> TRUE)]_vars

\* loop() has toggled the output twice under BLINK_FAST
C16_Witness ==
    /\ _pattern = "BLINK_FAST"
    /\ _lastUpdate > setAt
    /\ _lastUpdate - setAt > 2 * 200
    /\ _lastUpdate = clock

----------------------------------------------------------------------------
\* Reconnecting from loop()

\* C17 as stated: when loop() finds the link lost (state CONNECTED, adapter not
\* connected) and more than RECONNECT_DELAY_MS have passed since _lastConnectAttempt,
\* the same loop() starts a connect sequence: the callback receives DISCONNECTED,
\* CONNECTING and then CONNECTED or ERROR, and the state on return is that last one.
\* loop() returns in DISCONNECTED after a link loss only when the backoff has not elapsed.
C17_LinkLossReconnects ==
    /\ [][(pc = "loop_backoff" /\ opPre = "CONNECTED" /\ pollStatus = "down") =>
             IF clock - _lastConnectAttempt > 5000
               THEN /\ pc' = "begin_wait"
                    /\ _state' = "CONNECTING"
                    /\ callbackSet => cbLog' = <<"DISCONNECTED", "CONNECTING">>
               ELSE /\ pc' = "idle"
                    /\ _state' = "DISCONNECTED"
                    /\ callbackSet => cbLog' = <<"DISCONNECTED">>]_vars
    /\ []((Returned("poll") /\ opPre = "CONNECTED" /\ pollStatus = "down") =>
             \/ /\ _state \in {"CONNECTED", "ERROR"}
                /\ _lastConnectAttempt = attemptAt
                /\ callbackSet => cbLog = <<"DISCONNECTED", "CONNECTING", _state>>
             \/ /\ _state = "DISCONNECTED"
                /\ clock - _lastConnectAttempt <= 5000
                /\ callbackSet => cbLog = <<"DISCONNECTED">>)

\* C17, amended: when loop() finds the link lost and more than RECONNECT_DELAY_MS have
\* passed since _lastConnectAttempt, the same loop() stamps _lastConnectAttempt and, if
\* the last begin() was given an ssid, starts a connect sequence (callback: DISCONNECTED,
\* CONNECTING, then CONNECTED or ERROR; state on return CONNECTED or ERROR). loop()
\* returns in DISCONNECTED after a link loss only when the backoff has not elapsed or
\* the stored ssid is null; in the latter case the attempt counter is left alone.
C17_LinkLossReconnectsWithSsid ==
    /\ [][(pc = "loop_backoff" /\ opPre = "CONNECTED" /\ pollStatus = "down") =>
             IF clock - _lastConnectAttempt > 5000
               THEN /\ _lastConnectAttempt' = clock
                    /\ IF ssidSet
                         THEN /\ pc' = "begin_wait"
                              /\ _state' = "CONNECTING"
                              /\ _reconnectAttempts' = _reconnectAttempts + 1
                              /\ callbackSet => cbLog' = <<"DISCONNECTED", "CONNECTING">>
                         ELSE /\ pc' = "idle"
                              /\ _state' = "DISCONNECTED"
                              /\ _reconnectAttempts' = _reconnectAttempts
                              /\ callbackSet => cbLog' = <<"DISCONNECTED">>
               ELSE /\ pc' = "idle"
                    /\ _state' = "DISCONNECTED"
                    /\ _lastConnectAttempt' = _lastConnectAttempt
                    /\ callbackSet => cbLog' = <<"DISCONNECTED">>]_vars
    /\ []((Returned("poll") /\ opPre = "CONNECTED" /\ pollStatus = "down") =>
             \/ /\ _state \in {"CONNECTED", "ERROR"}
                /\ ssidSet
                /\ _lastConnectAttempt = attemptAt
                /\ callbackSet => cbLog = <<"DISCONNECTED", "CONNECTING", _state>>
             \/ /\ _state = "DISCONNECTED"
                /\ clock - _lastConnectAttempt <= 5000
                /\ callbackSet => cbLog = <<"DISCONNECTED">>)

\* a loop() that found the link lost with the backoff elapsed returned in ERROR
C17_Witness ==
    /\ Returned("poll")
    /\ opPre = "CONNECTED"
    /\ pollStatus = "down"
    /\ cbLog = <<"DISCONNECTED", "CONNECTING", "ERROR">>
    /\ _state = "ERROR"

----------------------------------------------------------------------------
\* CONNECTING and the tick loop of main.cpp

\* C18: the state is CONNECTING exactly while a connect sequence runs, so begin() and
\* loop() never return in CONNECTING; and in the program of main.cpp led.loop() never
\* runs while the manager is CONNECTING: the pattern BLINK_FAST stands only while a
\* connect sequence runs, during which the indicator does not change.
C18_ConnectingOnlyInsideBegin ==
    /\ [](_state = "CONNECTING" <=> pc = "begin_wait")
    /\ []((pc = "idle" /\ op \in {"initialize", "poll", "disconnect"}) => _state # "CONNECTING")
    /\ []((ledWired /\ _pattern = "BLINK_FAST") => pc = "begin_wait")
    /\ [][(pc = "idle" /\ op = "poll" /\ clock' # clock) =>
             _state # "CONNECTING" /\ _pattern # "BLINK_FAST"]_vars
    /\ [][pc = "begin_wait" =>
             <<_ledState, pinLevel, _lastUpdate, _blinkPhase>>' =
             <<_ledState, pinLevel, _lastUpdate, _blinkPhase>>]_vars

\* led.loop() is about to run after a loop() whose connect sequence selected BLINK_FAST
\* and then ON
C18_Witness ==
    /\ ledWired
    /\ Returned("poll")
    /\ cbLog = <<"CONNECTING", "CONNECTED">>
    /\ _pattern = "ON"
    /\ setAt = clock
    /\ clock - attemptAt = 3000

\* C19: in the program of main.cpp the backoff has always elapsed while the state is
\* ERROR (the last attempt was stamped at its start, more than WIFI_TIMEOUT_MS ago), so
\* the first loop() that finds ERROR starts a new connect sequence; after a reconnect
\* attempt that timed out this happens one iteration of the tick loop later, that is,
\* with one led.loop() and one delay(10) in between, and the manager is never in ERROR
\* longer than that.
C19_ErrorRetriesAtOnce ==
    /\ [](_state = "ERROR" =>
             /\ clock - _lastConnectAttempt > 5000
             /\ clock - attemptAt <= 30000 + 500 + 10)
    /\ [][(pc = "loop_backoff" /\ _state = "ERROR") =>
             /\ pc' = "begin_wait"
             /\ _lastConnectAttempt' = clock
             /\ attemptAt' = clock]_vars
    /\ [][(pc = "loop_backoff" /\ _state = "ERROR" /\ _lastConnectAttempt = attemptAt) =>
             clock = attemptAt + 30000 + 500 + 10]_vars
    /\ [][(pc = "idle" /\ op = "poll" /\ ret = "failure") =>
             /\ clock' = clock + 10
             /\ pc' = "idle" /\ op' = "none" /\ _state' = "ERROR"]_vars
    /\ [][(pc = "idle" /\ op = "none" /\ _state = "ERROR") => pc' = "loop_backoff"]_vars

\* a reconnect attempt has started right after the one before it timed out
C19_Witness ==
    /\ pc = "begin_wait"
    /\ op = "poll"
    /\ opPre = "ERROR"
    /\ _reconnectAttempts >= 2
    /\ clock = attemptAt
    /\ cbLog = <<"CONNECTING">>

----------------------------------------------------------------------------
\* The attempt counter and CONNECTED

\* C20 as stated: _reconnectAttempts is 0 whenever an operation has returned in
\* CONNECTED, and also at the moment the callback is invoked with CONNECTED.
C20_ConnectedMeansNoAttempts ==
    /\ (pc = "idle" /\ _state = "CONNECTED") => _reconnectAttempts = 0
    /\ attemptsAtConnected # -1 => attemptsAtConnected = 0

\* C20, amended: _reconnectAttempts is 0 whenever an operation has returned in
\* CONNECTED; at the moment the callback is invoked with CONNECTED the counter is not
\* reset yet: in a connect sequence started by loop() or reconnect() it still counts
\* that attempt, and in one started by begin() it has the value it had before the call.
C20_ConnectedOnReturnNoAttempts ==
    /\ [](((pc = "idle" \/ pc = "loop_backoff") /\ _state = "CONNECTED") => _reconnectAttempts = 0)
    /\ []((attemptsAtConnected # -1 /\ op \in {"poll", "reconnect"}) => attemptsAtConnected >= 1)
    /\ [][(pc = "begin_wait" /\ _state' = "CONNECTED" /\ callbackSet) =>
             attemptsAtConnected' = _reconnectAttempts /\ _reconnectAttempts' = 0]_vars

\* loop() returned in CONNECTED after its callback ran with CONNECTED while the counter
\* was 2
C20_Witness ==
    /\ Returned("poll")
    /\ _state = "CONNECTED"
    /\ fired = <<"CONNECTED">>
    /\ _reconnectAttempts = 0
    /\ attemptsAtConnected = 2

====
